---- MODULE Spec2Model ----
(***************************************************************************)
(* A model of pypath (src/main.py): a curses file browser.                 *)
(*                                                                         *)
(* Strings are sequences of one-character strings, names are strings,      *)
(* and a path is the sequence of its components after the leading "/"      *)
(* (the root is << >>); a component may be "..", "." or empty, as in the   *)
(* unnormalised paths os.path.join builds.  The filesystem is a function   *)
(* from the existing normalised paths to "dir" or "file"; there are no     *)
(* symbolic links.                                                         *)
(***************************************************************************)
EXTENDS Integers, Sequences, FiniteSets, TLC

(***************************************************************************)
(* Bounds of the model.                                                    *)
(***************************************************************************)
\* Largest number of filesystem entries below the root.
MaxNodes == 4
\* Longest path, in components.
MaxDepth == 2
\* Longest name, in characters.
MaxNameLen == 8
\* Most presses of the file and clipboard keys (a A r d C X P) in one run.
MaxFileOps == 3

(***************************************************************************)
(* Characters and strings.                                                 *)
(***************************************************************************)
UpperCase == <<"A", "B", "C", "D", "E", "F", "G", "H", "I", "J", "K", "L", "M",
               "N", "O", "P", "Q", "R", "S", "T", "U", "V", "W", "X", "Y", "Z">>

LowerCase == <<"a", "b", "c", "d", "e", "f", "g", "h", "i", "j", "k", "l", "m",
               "n", "o", "p", "q", "r", "s", "t", "u", "v", "w", "x", "y", "z">>

\* The characters of the model, in code-point order.
Alphabet == <<" ", "(", ")", "-", ".", "/", ";">> \o UpperCase \o <<"^">>
            \o LowerCase \o <<"~">>

Range(s) == {s[i] : i \in 1..Len(s)}

\* The rank of a character in code-point order (what sorted() compares).
Ord(c) == CHOOSE i \in 1..Len(Alphabet) : Alphabet[i] = c

\* str.isprintable() of one character; the special keys are not characters.
IsPrintable(k) == k \in Range(Alphabet)

\* str.lower() of one character.
LowerChar(c) ==
    IF c \in Range(UpperCase)
    THEN LowerCase[CHOOSE i \in 1..26 : UpperCase[i] = c]
    ELSE c

\* str.lower()
Lower(s) == [i \in 1..Len(s) |-> LowerChar(s[i])]

\* str.startswith(prefix)
StartsWith(s, prefix) ==
    /\ Len(prefix) <= Len(s)
    /\ SubSeq(s, 1, Len(prefix)) = prefix

\* s[n:]
Drop(s, n) == SubSeq(s, n + 1, Len(s))

\* s[:-1]
DropLast(s) == SubSeq(s, 1, Len(s) - 1)

\* The whitespace str.strip() removes.
IsSpace(c) == c \in {" ", "\n"}

RECURSIVE LStrip(_)
LStrip(s) == IF s # << >> /\ IsSpace(s[1]) THEN LStrip(Tail(s)) ELSE s

RECURSIVE RStrip(_)
RStrip(s) ==
    IF s # << >> /\ IsSpace(s[Len(s)]) THEN RStrip(DropLast(s)) ELSE s

\* str.strip()
Strip(s) == LStrip(RStrip(s))

\* str.split(sep) for a one-character separator: the pieces between the
\* separators, empty pieces kept.
RECURSIVE SplitAcc(_, _, _, _)
SplitAcc(s, sep, cur, acc) ==
    IF s = << >> THEN Append(acc, cur)
    ELSE IF s[1] = sep THEN SplitAcc(Tail(s), sep, << >>, Append(acc, cur))
    ELSE SplitAcc(Tail(s), sep, Append(cur, s[1]), acc)

Split(s, sep) == SplitAcc(s, sep, << >>, << >>)

\* The strict lexicographic order of two strings by code point.
LexLess(a, b) ==
    \E i \in 1..(Len(b)) :
        /\ i <= Len(a) + 1
        /\ \A j \in 1..(i - 1) : a[j] = b[j]
        /\ \/ i = Len(a) + 1
           \/ Ord(a[i]) < Ord(b[i])

\* sorted() of a set of strings.
RECURSIVE Sorted(_)
Sorted(S) ==
    IF S = {} THEN << >>
    ELSE LET m == CHOOSE x \in S : \A y \in S \ {x} : LexLess(x, y)
         IN  <<m>> \o Sorted(S \ {m})

\* list.index(x): the 0-based position of the first x.
IndexOf(seq, x) == (CHOOSE i \in 1..Len(seq) :
                        /\ seq[i] = x
                        /\ \A j \in 1..(i - 1) : seq[j] # x) - 1

\* os.path.commonprefix(list): the longest string that is a prefix of all.
CommonPrefix(S) ==
    LET any == CHOOSE x \in S : TRUE
        ok(n) == \A y \in S : Len(y) >= n /\ SubSeq(y, 1, n) = SubSeq(any, 1, n)
        n == CHOOSE k \in 0..Len(any) :
                 ok(k) /\ \A l \in (k + 1)..Len(any) : ~ok(l)
    IN  SubSeq(any, 1, n)

\* os.path.splitext(name): the extension starts at the last dot, unless only
\* dots come before it.
SplitExt(name) ==
    LET dots == {i \in 1..Len(name) : name[i] = "."}
        last == CHOOSE i \in dots : \A j \in dots : j <= i
    IN  IF dots # {} /\ \E j \in 1..(last - 1) : name[j] # "."
        THEN <<SubSeq(name, 1, last - 1), Drop(name, last - 1)>>
        ELSE <<name, << >> >>

(***************************************************************************)
(* Paths.                                                                  *)
(***************************************************************************)
DotDot == <<".", ".">>
Dot == <<".">>
Root == << >>

\* What a path operation gives when the path does not resolve.
NoPath == << <<"<none>">> >>

\* os.path.normpath of an absolute path: "" and "." go, ".." drops the
\* component before it and stays at the root.
RECURSIVE NormAcc(_, _)
NormAcc(p, acc) ==
    IF p = << >> THEN acc
    ELSE IF p[1] = << >> \/ p[1] = Dot THEN NormAcc(Tail(p), acc)
    ELSE IF p[1] = DotDot
         THEN NormAcc(Tail(p), IF acc = << >> THEN acc ELSE DropLast(acc))
    ELSE NormAcc(Tail(p), Append(acc, p[1]))

NormPath(p) == NormAcc(p, << >>)

\* os.path.join(path, name) for a name without separators; an empty name
\* only adds a trailing separator.
Join(p, name) == Append(p, name)

\* os.path.dirname: everything before the last separator.
DirName(p) == IF p = << >> THEN << >> ELSE DropLast(p)

\* os.path.basename(path.rstrip("/"))
RECURSIVE BaseName(_)
BaseName(p) ==
    IF p = << >> THEN << >>
    ELSE IF p[Len(p)] = << >> THEN BaseName(DropLast(p))
    ELSE p[Len(p)]

\* os.path.isabs of a string
IsAbs(s) == s # << >> /\ s[1] = "/"

\* The path an absolute string names.
ParseAbs(s) ==
    LET comps == Split(Tail(s), "/")
    IN  IF comps = << << >> >> THEN << >> ELSE comps

IsPrefix(p, q) == Len(p) <= Len(q) /\ SubSeq(q, 1, Len(p)) = p

(***************************************************************************)
(* The filesystem.                                                         *)
(***************************************************************************)
\* The kernel's resolution of a path: every component is looked up in a
\* directory that exists; NoPath when one is not there.
RECURSIVE ResolveAcc(_, _, _)
ResolveAcc(f, p, cur) ==
    IF p = << >> THEN (IF cur \in DOMAIN f THEN cur ELSE NoPath)
    ELSE IF ~(cur \in DOMAIN f /\ f[cur] = "dir") THEN NoPath
    ELSE IF p[1] = << >> \/ p[1] = Dot THEN ResolveAcc(f, Tail(p), cur)
    ELSE IF p[1] = DotDot
         THEN ResolveAcc(f, Tail(p), IF cur = << >> THEN cur ELSE DropLast(cur))
    ELSE ResolveAcc(f, Tail(p), Append(cur, p[1]))

Resolve(f, p) == ResolveAcc(f, p, << >>)

\* os.path.exists
Exists(f, p) == Resolve(f, p) # NoPath

\* os.path.isdir
IsDir(f, p) == Exists(f, p) /\ f[Resolve(f, p)] = "dir"

\* The names in a directory given by its normalised path.
Children(f, d) ==
    {q[Len(q)] : q \in {r \in DOMAIN f : Len(r) = Len(d) + 1 /\ IsPrefix(d, r)}}

\* os.listdir raises unless the path is a directory; else it gives the names.
CanList(f, p) == IsDir(f, p)

ListDir(f, p) == Children(f, Resolve(f, p))

\* [".."] + sorted(os.listdir(path))
Listing(f, p) == <<DotDot>> \o Sorted(ListDir(f, p))

Restrict(f, S) == [q \in S |-> f[q]]

\* The filesystem without the tree at the normalised path d.
WithoutTree(f, d) == Restrict(f, {q \in DOMAIN f : ~IsPrefix(d, q)})

\* The filesystem without what is below the normalised path d.
WithoutBelow(f, d) == Restrict(f, {q \in DOMAIN f : q = d \/ ~IsPrefix(d, q)})

\* The tree at src laid down again at dst (both normalised).
Graft(f, src, dst) ==
    LET moved == {q \in DOMAIN f : IsPrefix(src, q)}
        to(q) == dst \o Drop(q, Len(src))
    IN  [r \in DOMAIN f \cup {to(q) : q \in moved} |->
            IF \E q \in moved : to(q) = r
            THEN f[CHOOSE q \in moved : to(q) = r]
            ELSE f[r]]

\* The filesystems the model keeps: within the bounds.
InBounds(f) ==
    /\ Cardinality(DOMAIN f) - 1 <= MaxNodes
    /\ \A q \in DOMAIN f :
          /\ Len(q) <= MaxDepth
          /\ \A i \in 1..Len(q) : Len(q[i]) <= MaxNameLen

(***************************************************************************)
(* The filesystem calls the program makes.  Each gives the outcome and the *)
(* filesystem it leaves: [ok |-> BOOLEAN, fs |-> ...]; ok = FALSE is the   *)
(* call raising.                                                           *)
(***************************************************************************)
Done(f) == [ok |-> TRUE, fs |-> f]
Raised(f) == [ok |-> FALSE, fs |-> f]

\* Whether the last component of a path is a name to create or replace.
PlainLast(p) == p # << >> /\ p[Len(p)] \notin {<< >>, Dot, DotDot}

\* The normalised path a call would create for p: its directory resolved,
\* then its last component; NoPath when the directory is not there.
Target(f, p) ==
    IF PlainLast(p) /\ IsDir(f, DirName(p))
    THEN Append(Resolve(f, DirName(p)), p[Len(p)])
    ELSE NoPath

\* os.remove: unlinks a file; raises on a directory or a missing path.
OsRemove(f, p) ==
    LET t == Target(f, p)
    IN  IF t # NoPath /\ t \in DOMAIN f /\ f[t] = "file"
        THEN Done(WithoutTree(f, t))
        ELSE Raised(f)

\* shutil.rmtree of a directory: removes what is below it, then rmdir(path),
\* which raises for the root and for a path ending in "..".
RmTree(f, p) ==
    LET r == Resolve(f, p)
    IN  IF r = NoPath \/ f[r] # "dir" THEN Raised(f)
        ELSE IF PlainLast(p) /\ r # Root THEN Done(WithoutTree(f, r))
        ELSE Raised(WithoutBelow(f, r))

\* os.rename(old, new) on one device.
OsRename(f, old, new) ==
    LET ro == Resolve(f, old)
        rn == Target(f, new)
    IN  IF ro = NoPath \/ ~PlainLast(old) \/ rn = NoPath THEN Raised(f)
        ELSE IF rn = ro THEN Done(f)
        ELSE IF IsPrefix(ro, rn) THEN Raised(f)
        ELSE IF rn \notin DOMAIN f
             THEN Done(WithoutTree(Graft(f, ro, rn), ro))
        ELSE IF f[ro] = "file" /\ f[rn] = "file"
             THEN Done(WithoutTree(Graft(f, ro, rn), ro))
        ELSE IF f[ro] = "dir" /\ f[rn] = "dir" /\ Children(f, rn) = {}
             THEN Done(WithoutTree(Graft(f, ro, rn), ro))
        ELSE Raised(f)

\* shutil.move(src, dst): into dst when dst is a directory, else onto dst;
\* on one device the fallbacks after a failed os.rename fail as well.
ShutilMove(f, src, dst) ==
    IF IsDir(f, dst)
    THEN IF Exists(f, src) /\ Resolve(f, src) = Resolve(f, dst)
         THEN OsRename(f, src, dst)
         ELSE IF Exists(f, Join(dst, BaseName(src))) THEN Raised(f)
         ELSE OsRename(f, src, Join(dst, BaseName(src)))
    ELSE OsRename(f, src, dst)

\* shutil.copytree(src, dst): dst must not exist; the entries of src are
\* listed before dst is made.  A dst deeper than a child of src is copied
\* into itself without end, which no bound of the model holds.
CopyTree(f, src, dst) ==
    LET rs == Resolve(f, src)
        rd == Target(f, dst)
    IN  IF rs = NoPath \/ f[rs] # "dir" \/ rd = NoPath \/ rd \in DOMAIN f
        THEN Raised(f)
        ELSE Done(Graft(f, rs, rd))

\* shutil.copy2(src, dst) of a file: an existing file at dst is overwritten.
Copy2(f, src, dst) ==
    LET rs == Resolve(f, src)
        rd == IF IsDir(f, dst) THEN Target(f, Join(dst, BaseName(src)))
              ELSE Target(f, dst)
    IN  IF rs = NoPath \/ f[rs] # "file" \/ rd = NoPath \/ rd = rs
        THEN Raised(f)
        ELSE IF rd \in DOMAIN f /\ f[rd] = "dir" THEN Raised(f)
        ELSE Done(Graft(f, rs, rd))

\* os.mkdir
MkDir(f, p) ==
    LET t == Target(f, p)
    IN  IF t = NoPath \/ t \in DOMAIN f THEN Raised(f)
        ELSE Done(f @@ (t :> "dir"))

\* open(path, "w").close(): creates the file or truncates it.
OpenW(f, p) ==
    LET t == Target(f, p)
    IN  IF t = NoPath \/ (t \in DOMAIN f /\ f[t] = "dir") THEN Raised(f)
        ELSE Done([q \in DOMAIN f \cup {t} |-> IF q = t THEN "file" ELSE f[q]])

(***************************************************************************)
(* Regular expressions: the part of Python's re the model's patterns use.  *)
(* "^" is the start anchor, "." any character, "(" and ")" group, every    *)
(* other character of the alphabet stands for itself.                      *)
(***************************************************************************)
RECURSIVE ParenDepth(_, _)
ParenDepth(pat, depth) ==
    IF depth < 0 THEN depth
    ELSE IF pat = << >> THEN depth
    ELSE IF pat[1] = "(" THEN ParenDepth(Tail(pat), depth + 1)
    ELSE IF pat[1] = ")" THEN ParenDepth(Tail(pat), depth - 1)
    ELSE ParenDepth(Tail(pat), depth)

\* re.compile(pattern, re.IGNORECASE) does not raise re.error.
Compiles(pat) == ParenDepth(pat, 0) = 0

RECURSIVE MatchAt(_, _, _)
MatchAt(pat, name, pos) ==
    IF pat = << >> THEN TRUE
    ELSE IF pat[1] \in {"(", ")"} THEN MatchAt(Tail(pat), name, pos)
    ELSE IF pat[1] = "^" THEN pos = 0 /\ MatchAt(Tail(pat), name, pos)
    ELSE /\ pos < Len(name)
         /\ pat[1] = "." \/ LowerChar(pat[1]) = LowerChar(name[pos + 1])
         /\ MatchAt(Tail(pat), name, pos + 1)

\* regex.search(name) finds a match.
Search(pat, name) == \E pos \in 0..Len(name) : MatchAt(pat, name, pos)

(***************************************************************************)
(* Keys.  A printable key is its character; the others are named.          *)
(***************************************************************************)
Enter == "ENTER"
Esc == "ESC"
Backspace == "BS"
Tab == "TAB"

\* None, where the program has a string or None.
NoneStr == <<"<None>">>

\* What the program shows or calls during one step of the main loop, in order.
Ev(type, text, path, ok) == [type |-> type, text |-> text, path |-> path, ok |-> ok]

Emit(s, e) == [s EXCEPT !.events = Append(@, e)]

ShowStatus(s, text) == Emit(s, Ev("status", <<text>>, NoPath, TRUE))

ShowError(s, text) == Emit(s, Ev("error", <<text>>, NoPath, FALSE))

\* The loop ends with an unhandled exception.
Raise(s) == [s EXCEPT !.run = "crashed"]

\* A filesystem call made and its outcome.
FsCall(s, op, path, r) ==
    Emit([s EXCEPT !.fs = r.fs], Ev(op, << >>, path, r.ok))

\* prompt_string: the text typed up to Enter, or None on Escape.
RECURSIVE PromptRun(_, _)
PromptRun(keys, buffer) ==
    IF keys = << >> THEN buffer
    ELSE IF keys[1] = Enter THEN buffer
    ELSE IF keys[1] = Esc THEN NoneStr
    ELSE IF keys[1] = Backspace
         THEN PromptRun(Tail(keys), IF buffer # << >> THEN DropLast(buffer) ELSE buffer)
    ELSE IF IsPrintable(keys[1]) THEN PromptRun(Tail(keys), Append(buffer, keys[1]))
    ELSE PromptRun(Tail(keys), buffer)

prompt_string(keys) == PromptRun(keys, << >>)

(***************************************************************************)
(* The clipboard and the file operations.                                  *)
(***************************************************************************)
CopyMarker == <<"-", "c", "o", "p", "y">>

copy_entity(s, ents) ==
    ShowStatus([s EXCEPT !.clipboard =
                   [path |-> Join(s.current_path, ents[s.selected + 1]),
                    cut |-> FALSE]],
               "Copied")

cut_entity(s, ents) ==
    ShowStatus([s EXCEPT !.clipboard =
                   [path |-> Join(s.current_path, ents[s.selected + 1]),
                    cut |-> TRUE]],
               "Cut")

\* The name paste_entity writes to.
PasteName(src, cut) ==
    LET base == BaseName(src)
        ne == SplitExt(base)
    IN  IF cut THEN base ELSE ne[1] \o CopyMarker \o ne[2]

\* A paste that leaves the clipboard as it is, cut or not.
paste_entity_keep(s) ==
    LET src == s.clipboard.path
        cut == s.clipboard.cut
        dest == Join(s.current_path, PasteName(src, cut))
        op == IF cut THEN "move" ELSE IF IsDir(s.fs, src) THEN "copytree" ELSE "copy2"
        r == IF cut THEN ShutilMove(s.fs, src, dest)
             ELSE IF IsDir(s.fs, src) THEN CopyTree(s.fs, src, dest)
             ELSE Copy2(s.fs, src, dest)
        called == FsCall(s, op, dest, r)
    IN  IF src = NoPath THEN ShowStatus(s, "Clipboard is empty.")
        ELSE IF ~r.ok THEN ShowError(called, "Error while pasting")
        ELSE ShowStatus(called, IF cut THEN "Moved" ELSE "Copied into")

paste_entity(s) ==
    LET src == s.clipboard.path
        cut == s.clipboard.cut
        dest == Join(s.current_path, PasteName(src, cut))
        op == IF cut THEN "move" ELSE IF IsDir(s.fs, src) THEN "copytree" ELSE "copy2"
        r == IF cut THEN ShutilMove(s.fs, src, dest)
             ELSE IF IsDir(s.fs, src) THEN CopyTree(s.fs, src, dest)
             ELSE Copy2(s.fs, src, dest)
        called == FsCall(s, op, dest, r)
    IN  IF src = NoPath THEN ShowStatus(s, "Clipboard is empty.")
        ELSE IF ~r.ok THEN ShowError(called, "Error while pasting")
        ELSE IF cut
             THEN ShowStatus([called EXCEPT !.clipboard = [path |-> NoPath, cut |-> FALSE]],
                             "Moved")
        ELSE ShowStatus(called, "Copied into")

\* create_entity: [st |-> the state after, name |-> the name made, or None].
create_entity(s, dir, keys) ==
    LET name == prompt_string(keys)
        full == Join(dir, name)
        isfile == SplitExt(name)[2] # << >>
        r == IF isfile THEN OpenW(s.fs, full) ELSE MkDir(s.fs, full)
        called == FsCall(s, IF isfile THEN "open" ELSE "mkdir", full, r)
    IN  IF name = NoneStr THEN [st |-> s, name |-> NoneStr]
        ELSE IF r.ok THEN [st |-> called, name |-> name]
        ELSE [st |-> ShowError(called, "Error"), name |-> NoneStr]

\* rename_entity, entered with entries[selected] in range.
rename_entity(s, ents, keys) ==
    LET old == ents[s.selected + 1]
        new == prompt_string(keys)
        full_old == Join(s.current_path, old)
        full_new == Join(s.current_path, new)
        r == OsRename(s.fs, full_old, full_new)
        called == FsCall(s, "rename", full_new, r)
    IN  IF new = NoneStr THEN [st |-> s, name |-> NoneStr]
        ELSE IF r.ok THEN [st |-> called, name |-> new]
        ELSE [st |-> ShowError(called, "Error"), name |-> NoneStr]

\* The answer to the Delete prompt that lets the removal go ahead.
\* Any answer but Escape and the empty one taken as a yes.
Confirmed_any(confirm) == confirm # NoneStr /\ confirm # << >>

Confirmed(confirm) == confirm # NoneStr /\ StartsWith(Lower(confirm), <<"y">>)

\* delete_entity, entered with entries[selected] in range.
delete_entity(s, ents, keys) ==
    LET name == ents[s.selected + 1]
        confirm == prompt_string(keys)
        full == Join(s.current_path, name)
        isdir == IsDir(s.fs, full)
        r == IF isdir THEN RmTree(s.fs, full) ELSE OsRemove(s.fs, full)
        asked == Emit(s, Ev("prompt", confirm, NoPath, TRUE))
        called == FsCall(asked, IF isdir THEN "rmtree" ELSE "remove", full, r)
    IN  IF ~Confirmed(confirm) THEN asked
        ELSE IF r.ok THEN called
        ELSE ShowError(called, "Error deleting")

(***************************************************************************)
(* The command line.                                                       *)
(***************************************************************************)
\* The home directory os.path.expanduser("~") gives, as a string.
HomeStr == <<"/", "d">>

\* os.path.expanduser
ExpandUser(t) ==
    IF t # << >> /\ t[1] = "~" /\ (Len(t) = 1 \/ t[2] = "/")
    THEN HomeStr \o Tail(t)
    ELSE t

CdWord == <<"c", "d">>
CdPrefix == <<"c", "d", " ">>

\* [p.strip() for p in cmd.split(";") if p.strip()]
Parts(cmd) ==
    LET pieces == Split(cmd, ";")
    IN  SelectSeq([i \in 1..Len(pieces) |-> Strip(pieces[i])], LAMBDA x : x # << >>)

IsCd(part) == part = CdWord \/ StartsWith(part, CdPrefix)

\* The path a cd sub-command asks for, from new_path.
CdCandidate(part, new_path) ==
    LET target == IF part = CdWord THEN ExpandUser(<<"~">>)
                  ELSE ExpandUser(Strip(Drop(part, 3)))
    IN  IF IsAbs(target) THEN ParseAbs(target)
        ELSE NormPath(new_path \o Split(target, "/"))

\* The text with the footer whatever the return code.
FullOutput_footer(res) ==
    LET o == res.out
        oe == IF res.err # << >>
              THEN o \o (IF o # << >> THEN <<"\n">> ELSE << >>) \o res.err
              ELSE o
    IN  oe \o <<"\n", "\n", "(Return code: ", ToString(res.rc), ")">>

\* The text a shell sub-command's result puts in the pager.
FullOutput(res) ==
    LET o == res.out
        oe == IF res.err # << >>
              THEN o \o (IF o # << >> THEN <<"\n">> ELSE << >>) \o res.err
              ELSE o
    IN  IF res.rc # 0
        THEN oe \o <<"\n", "\n", "(Return code: ", ToString(res.rc), ")">>
        ELSE oe

\* One shell sub-command: Popen in cwd (raising when cwd is no directory),
\* what communicate() and returncode give, then the pager when there is
\* something to show.
RunShell(s, part, cwd, res) ==
    IF ~IsDir(s.fs, cwd)
    THEN ShowError(Emit(s, Ev("shell", part, cwd, FALSE)), "Error while executing")
    ELSE LET started == Emit(s, Ev("shell", part, cwd, TRUE))
             ran == Emit(Emit(Emit(started,
                        Ev("stdout", res.out, cwd, TRUE)),
                        Ev("stderr", res.err, cwd, TRUE)),
                        Ev("returncode", <<ToString(res.rc)>>, cwd, res.rc = 0))
         IN  IF Strip(FullOutput(res)) # << >>
             THEN Emit(ran, Ev("pager", FullOutput(res), cwd, TRUE))
             ELSE ran

\* A loop that gives up at the first cd that fails.
RECURSIVE ExecParts_abort(_, _, _, _)
ExecParts_abort(s, parts, new_path, results) ==
    IF parts = << >> THEN [st |-> s, path |-> new_path]
    ELSE IF IsCd(parts[1])
         THEN LET candidate == CdCandidate(parts[1], new_path)
              IN  IF IsDir(s.fs, candidate)
                  THEN ExecParts_abort(Emit(s, Ev("cd", parts[1], candidate, TRUE)),
                                       Tail(parts), candidate, results)
                  ELSE [st |-> ShowError(Emit(s, Ev("cd", parts[1], candidate, FALSE)),
                                         "Cannot enter"),
                        path |-> new_path]
    ELSE ExecParts_abort(RunShell(s, parts[1], new_path, results[1]),
                         Tail(parts), new_path, Tail(results))

\* The loop of execute_command over the sub-commands; results holds the
\* outcome of each shell sub-command, in order.
RECURSIVE ExecParts(_, _, _, _)
ExecParts(s, parts, new_path, results) ==
    IF parts = << >> THEN [st |-> s, path |-> new_path]
    ELSE IF IsCd(parts[1])
         THEN LET candidate == CdCandidate(parts[1], new_path)
              IN  IF IsDir(s.fs, candidate)
                  THEN ExecParts(Emit(s, Ev("cd", parts[1], candidate, TRUE)),
                                 Tail(parts), candidate, results)
                  ELSE ExecParts(ShowError(Emit(s, Ev("cd", parts[1], candidate, FALSE)),
                                           "Cannot enter"),
                                 Tail(parts), new_path, results)
    ELSE ExecParts(RunShell(s, parts[1], new_path, results[1]),
                   Tail(parts), new_path, Tail(results))

\* execute_command(stdscr, cmd, current_path): the state after and the path
\* returned.
execute_command(s, cmd, results) == ExecParts(s, Parts(cmd), s.current_path, results)

\* The number of shell sub-commands of a buffer.
ShellCount(cmd) == Len(SelectSeq(Parts(cmd), LAMBDA x : ~IsCd(x)))

\* os.path.split of a string: <<head, tail>> around the last separator.
OsPathSplit(raw) ==
    LET seps == {i \in 1..Len(raw) : raw[i] = "/"}
        i == IF seps = {} THEN 0 ELSE CHOOSE k \in seps : \A l \in seps : l <= k
        head == SubSeq(raw, 1, i)
        RECURSIVE RStripSep(_)
        RStripSep(h) == IF h # << >> /\ h[Len(h)] = "/" THEN RStripSep(DropLast(h)) ELSE h
    IN  <<IF \E k \in 1..Len(head) : head[k] # "/" THEN RStripSep(head) ELSE head,
          Drop(raw, i)>>

\* The suggestion that marks the common prefix of several candidates when
\* it names a directory.
find_autocomplete_suggestion_marked(f, buffer, current_path) ==
    LET raw == Drop(buffer, 3)
        basedir == OsPathSplit(raw)[1]
        partial == OsPathSplit(raw)[2]
        search_dir == IF IsAbs(basedir) THEN ParseAbs(basedir)
                      ELSE NormPath(current_path \o Split(basedir, "/"))
        candidates == {e \in ListDir(f, search_dir) : StartsWith(e, partial)}
        single == CHOOSE e \in candidates : TRUE
        common == CommonPrefix(candidates)
        isdir(e) == IsDir(f, Join(search_dir, e))
    IN  IF ~CanList(f, search_dir) THEN <<raw, << >>, FALSE>>
        ELSE IF candidates = {} THEN <<raw, << >>, FALSE>>
        ELSE IF Cardinality(candidates) = 1
             THEN <<raw,
                    Drop(single, Len(partial)) \o (IF isdir(single) THEN <<"/">> ELSE << >>),
                    isdir(single)>>
        ELSE <<raw,
               Drop(common, Len(partial)) \o (IF isdir(common) THEN <<"/">> ELSE << >>),
               FALSE>>

\* find_autocomplete_suggestion: <<raw, suffix, is a directory>>.
find_autocomplete_suggestion(f, buffer, current_path) ==
    LET raw == Drop(buffer, 3)
        basedir == OsPathSplit(raw)[1]
        partial == OsPathSplit(raw)[2]
        search_dir == IF IsAbs(basedir) THEN ParseAbs(basedir)
                      ELSE NormPath(current_path \o Split(basedir, "/"))
        candidates == {e \in ListDir(f, search_dir) : StartsWith(e, partial)}
        single == CHOOSE e \in candidates : TRUE
        isdir == IsDir(f, Join(search_dir, single))
    IN  IF ~CanList(f, search_dir) THEN <<raw, << >>, FALSE>>
        ELSE IF candidates = {} THEN <<raw, << >>, FALSE>>
        ELSE IF Cardinality(candidates) = 1
             THEN <<raw,
                    Drop(single, Len(partial)) \o (IF isdir THEN <<"/">> ELSE << >>),
                    isdir>>
        ELSE <<raw, Drop(CommonPrefix(candidates), Len(partial)), FALSE>>

\* The indices with the ".." and "." entries searched like the rest.
MatchIndices_all(pat, ents) ==
    LET RECURSIVE From(_)
        From(i) == IF i > Len(ents) THEN << >>
                   ELSE (IF Search(pat, ents[i]) THEN <<i - 1>> ELSE << >>) \o From(i + 1)
    IN  From(1)

\* The 0-based indices of the entries a compiled pattern matches, in order.
MatchIndices(pat, ents) ==
    LET hit(i) == ents[i] \notin {DotDot, Dot} /\ Search(pat, ents[i])
        RECURSIVE From(_)
        From(i) == IF i > Len(ents) THEN << >>
                   ELSE (IF hit(i) THEN <<i - 1>> ELSE << >>) \o From(i + 1)
    IN  From(1)

\* The index to select with ".." and "." searched like the other entries.
update_selection_from_regex_all(buffer, ents) ==
    IF StartsWith(buffer, <<"/">>) /\ Len(buffer) > 1 /\ Compiles(Drop(buffer, 1))
       /\ MatchIndices_all(Drop(buffer, 1), ents) # << >>
    THEN MatchIndices_all(Drop(buffer, 1), ents)[1]
    ELSE -1

\* update_selection_from_regex: the index to select, or -1 for None.
update_selection_from_regex(buffer, ents) ==
    IF StartsWith(buffer, <<"/">>) /\ Len(buffer) > 1 /\ Compiles(Drop(buffer, 1))
       /\ MatchIndices(Drop(buffer, 1), ents) # << >>
    THEN MatchIndices(Drop(buffer, 1), ents)[1]
    ELSE -1

(***************************************************************************)
(* The viewport: the scroll offset each redraw computes.                   *)
(***************************************************************************)
\* max_display = (h - 2) - reserved_lines
max_display(h, cmd_mode) == (h - 2) - (IF cmd_mode THEN 2 ELSE 0)

\* The offset without the row the selection itself takes.
directory_offset_short(total, sel, rows) ==
    IF total <= rows THEN 0
    ELSE LET offset == IF sel < rows THEN 0 ELSE sel - rows
         IN  IF offset > total - rows THEN total - rows ELSE offset

\* draw_directory, lines 503-511.
directory_offset(total, sel, rows) ==
    IF total <= rows THEN 0
    ELSE LET offset == IF sel < rows THEN 0 ELSE sel - (rows - 1)
         IN  IF offset > total - rows THEN total - rows ELSE offset

\* The offset that leaves the top only once the selection is below the
\* first row under the window.
preview_offset_late(total, sel, rows) ==
    IF total <= rows THEN 0
    ELSE LET offset == IF sel <= rows THEN 0 ELSE sel - (rows - 1)
         IN  IF offset > total - rows THEN total - rows ELSE offset

\* draw_directory_and_preview, lines 628-636.
preview_offset(total, sel, rows) ==
    IF total <= rows THEN 0
    ELSE LET offset == IF sel < rows THEN 0 ELSE sel - (rows - 1)
         IN  IF offset > total - rows THEN total - rows ELSE offset

(***************************************************************************)
(* The output pager (show_output_curses).                                  *)
(***************************************************************************)
Min(a, b) == IF a < b THEN a ELSE b
Max(a, b) == IF a > b THEN a ELSE b

\* win_h = int(h * 0.8); max_lines = win_h - 4
max_lines(h) == ((h * 8) \div 10) - 4

\* The new offset after a key of the pager, lines 292-305.
pager_key(key, offset, nlines, rows) ==
    IF key \in {"DOWN", "j"} THEN (IF offset + rows < nlines THEN offset + 1 ELSE offset)
    ELSE IF key \in {"UP", "k"} THEN (IF offset > 0 THEN offset - 1 ELSE offset)
    ELSE IF key = "NPAGE" THEN Min(offset + rows, nlines - rows)
    ELSE IF key = "PPAGE" THEN Max(offset - rows, 0)
    ELSE IF key = "g" THEN 0
    ELSE IF key = "G" THEN Max(nlines - rows, 0)
    ELSE offset

\* The redraw of the pager reads lines[idx] for idx in
\* range(offset, min(offset + max_lines, len(lines))); a negative idx counts
\* from the end, and IndexError is raised past either end.
pager_draws(offset, nlines, rows) ==
    \A idx \in offset..(Min(offset + rows, nlines) - 1) :
        -nlines <= idx /\ idx < nlines

\* The banners and the hint prefix looked for by the redraw.
StagedBanner ==
    <<"C", "h", "a", "n", "g", "e", "s", " ", "t", "o", " ", "b", "e", " ",
      "c", "o", "m", "m", "i", "t", "t", "e", "d">>

UnstagedBanner ==
    <<"C", "h", "a", "n", "g", "e", "s", " ", "n", "o", "t", " ", "s", "t",
      "a", "g", "e", "d", " ", "f", "o", "r", " ", "c", "o", "m", "m", "i",
      "t">>

HintPrefix == <<"(", "u", "s", "e", " ">>

\* lines[idx], a negative idx counting from the end.
PyIndex(lines, idx) == IF idx >= 0 THEN lines[idx + 1] ELSE lines[Len(lines) + idx + 1]

\* re.search(r"\s*@@.*?@@", raw).span() as <<start, end>>, or <<-1, -1>> for
\* None.  A match from s takes the white space from s, then "@@" at once,
\* then as little as will do up to the next "@@".
hunk_span(raw) ==
    LET At(k) == k + 1 <= Len(raw) /\ raw[k] = "@" /\ raw[k + 1] = "@"
        Closes(k) == {c \in (k + 2)..Len(raw) : At(c)}
        Opens(t) == CHOOSE k \in t..(Len(raw) + 1) :
                        /\ \A j \in t..(k - 1) : IsSpace(raw[j])
                        /\ k = Len(raw) + 1 \/ ~IsSpace(raw[k])
        Starts == {t \in 1..Len(raw) : At(Opens(t)) /\ Closes(Opens(t)) # {}}
        start == CHOOSE t \in Starts : \A u \in Starts : t <= u
        close == CHOOSE c \in Closes(Opens(start)) :
                     \A e \in Closes(Opens(start)) : c <= e
    IN  IF Starts = {} THEN <<-1, -1>> ELSE <<start - 1, close + 1>>

Span(text, attr) == [text |-> text, attr |-> attr]

\* One pass of the loop body of the redraw (lines 230-284): the section
\* after the line and the spans drawn for it.
\* The loop body with the default emphasis in every section.
draw_line_flat(section, raw) ==
    LET whole(attr) == <<Span(raw, attr)>>
        hunk == hunk_span(raw)
    IN  IF StartsWith(raw, StagedBanner)
        THEN [section |-> "staged", spans |-> whole("A_DIM")]
        ELSE IF StartsWith(raw, UnstagedBanner)
        THEN [section |-> "unstaged", spans |-> whole("A_DIM")]
        ELSE IF StartsWith(Strip(raw), HintPrefix) /\ section \in {"staged", "unstaged"}
        THEN [section |-> section, spans |-> whole("A_DIM")]
        ELSE IF hunk # <<-1, -1>>
        THEN [section |-> section,
              spans |-> <<Span(SubSeq(raw, 1, hunk[1]), "none"),
                          Span(SubSeq(raw, hunk[1] + 1, hunk[2]), "color_pair(1)"),
                          Span(SubSeq(raw, hunk[2] + 1, Len(raw)), "none")>>]
        ELSE [section |-> section,
              spans |-> whole(
                  IF StartsWith(raw, <<"+", "+", "+", " ">>)
                     \/ StartsWith(raw, <<"-", "-", "-", " ">>) THEN "A_BOLD"
                  ELSE IF StartsWith(raw, <<"+">>) THEN "color_pair(6)"
                  ELSE IF StartsWith(raw, <<"-">>) THEN "color_pair(3)"
                  ELSE "A_BOLD")]

\* One pass of the loop body, in the order of its tests.
draw_line(section, raw) ==
    LET whole(attr) == <<Span(raw, attr)>>
        hunk == hunk_span(raw)
    IN  IF StartsWith(raw, StagedBanner)
        THEN [section |-> "staged", spans |-> whole("A_DIM")]
        ELSE IF StartsWith(raw, UnstagedBanner)
        THEN [section |-> "unstaged", spans |-> whole("A_DIM")]
        ELSE IF StartsWith(Strip(raw), HintPrefix) /\ section \in {"staged", "unstaged"}
        THEN [section |-> section, spans |-> whole("A_DIM")]
        ELSE IF hunk # <<-1, -1>>
        THEN [section |-> section,
              spans |-> <<Span(SubSeq(raw, 1, hunk[1]), "none"),
                          Span(SubSeq(raw, hunk[1] + 1, hunk[2]), "color_pair(1)"),
                          Span(SubSeq(raw, hunk[2] + 1, Len(raw)), "none")>>]
        ELSE [section |-> section,
              spans |-> whole(
                  IF StartsWith(raw, <<"+", "+", "+", " ">>)
                     \/ StartsWith(raw, <<"-", "-", "-", " ">>) THEN "A_BOLD"
                  ELSE IF StartsWith(raw, <<"+">>) THEN "color_pair(6)"
                  ELSE IF StartsWith(raw, <<"-">>) THEN "color_pair(3)"
                  ELSE IF section = "staged" THEN "color_pair(6)"
                  ELSE IF section = "unstaged" THEN "color_pair(3)"
                  ELSE "A_BOLD")]

\* The rows one redraw puts in the window, on a terminal wide enough for
\* every line: section = None, then the lines from offset on.
pager_screen(lines, offset, rows) ==
    LET stop == Min(offset + rows, Len(lines))
        RECURSIVE From(_, _)
        From(idx, section) ==
            IF idx >= stop THEN << >>
            ELSE LET row == draw_line(section, PyIndex(lines, idx))
                 IN  <<[idx |-> idx, spans |-> row.spans]>> \o From(idx + 1, row.section)
    IN  From(offset, "None")

(***************************************************************************)
(* The main loop.  A state is the program blocked in getch() after a       *)
(* redraw, or ended; a step is one key handled and the redraw after it.    *)
(***************************************************************************)
VARIABLES
    fs,                 \* the filesystem
    neovim,             \* whether PYPATH_MODE is "neovim"
    current_path,
    selected,
    command_mode,
    cmd_buffer,
    preview_mode,
    last_search,        \* the pattern, or None
    search_matches,
    current_match_idx,
    clipboard,          \* _clipboard: [path, cut]; path NoPath for None
    entries,            \* the listing the last redraw returned
    run,                \* "running", "quit", "emitted" or "crashed"
    events,             \* what the last step showed and called
    file_ops,           \* the file and clipboard keys pressed so far
    pager,              \* the pager: [state, lines, h, offset]
    view                \* a redraw: [h, command_mode, total, selected,
                        \*            drawn, offset, preview_offset]

browser == <<fs, neovim, current_path, selected, command_mode, cmd_buffer,
             preview_mode, last_search, search_matches, current_match_idx,
             clipboard, entries, run, events, file_ops>>

vars == <<browser, pager, view>>

\* No pager open, nothing drawn.
NoPager == [state |-> "closed", lines |-> << >>, h |-> 0, offset |-> 0]
NoView == [h |-> 0, command_mode |-> FALSE, total |-> 0, selected |-> 0,
           drawn |-> FALSE, offset |-> 0, preview_offset |-> 0]

\* The program's state as the handlers see it, with nothing shown yet.
Cur == [fs |-> fs, current_path |-> current_path, selected |-> selected,
        command_mode |-> command_mode, cmd_buffer |-> cmd_buffer,
        preview_mode |-> preview_mode, last_search |-> last_search,
        search_matches |-> search_matches,
        current_match_idx |-> current_match_idx, clipboard |-> clipboard,
        entries |-> entries, run |-> run, events |-> << >>]

\* draw_directory / draw_directory_and_preview at the top of the loop:
\* os.listdir raises when current_path is no directory, and the preview
\* indexes entries[selected].
draw(s) ==
    IF s.run # "running" THEN s
    ELSE IF ~CanList(s.fs, s.current_path) THEN Raise(s)
    ELSE IF s.preview_mode /\ s.selected >= Len(Listing(s.fs, s.current_path))
         THEN Raise(s)
    ELSE [s EXCEPT !.entries = Listing(s.fs, s.current_path)]

\* The state the handlers left, then the redraw.
Apply(s) ==
    \E t \in {draw(s)} :
        /\ InBounds(t.fs)
        /\ fs' = t.fs
        /\ current_path' = t.current_path
        /\ selected' = t.selected
        /\ command_mode' = t.command_mode
        /\ cmd_buffer' = t.cmd_buffer
        /\ preview_mode' = t.preview_mode
        /\ last_search' = t.last_search
        /\ search_matches' = t.search_matches
        /\ current_match_idx' = t.current_match_idx
        /\ clipboard' = t.clipboard
        /\ entries' = t.entries
        /\ run' = t.run
        /\ events' = t.events
        /\ UNCHANGED <<neovim, pager, view>>

\* A key that counts towards MaxFileOps, or one that does not.
FileOp == file_ops < MaxFileOps /\ file_ops' = file_ops + 1
NoFileOp == UNCHANGED file_ops

Normal == run = "running" /\ ~command_mode
Command == run = "running" /\ command_mode

\* `if x:` for a string or None.
Truthy(str) == str # NoneStr /\ str # << >>

\* entries = [".."] + sorted(os.listdir(current_path)) inside a handler, then
\* the rest of the handler; os.listdir raising ends the loop.
WithListing(s, rest) ==
    IF CanList(s.fs, s.current_path) THEN rest ELSE Raise(s)

\* entries[selected] raises IndexError past the end.
InRange(s, ents) == s.selected < Len(ents)

(***************************************************************************)
(* Command mode (main, lines 791-857).                                     *)
(***************************************************************************)
\* Enter on a filter buffer, the pattern kept when nothing matches.
commit_filter_keep(s) ==
    LET pattern == Drop(s.cmd_buffer, 1)
        matches(ents) == MatchIndices(pattern, ents)
        found(ents) ==
            IF matches(ents) # << >>
            THEN [s EXCEPT !.search_matches = matches(ents),
                           !.last_search = pattern,
                           !.current_match_idx = 0,
                           !.selected = matches(ents)[1]]
            ELSE ShowStatus([s EXCEPT !.search_matches = << >>,
                                      !.last_search = pattern],
                            "No matches")
    IN  IF Compiles(pattern) THEN WithListing(s, found(Listing(s.fs, s.current_path)))
        ELSE ShowStatus(s, "Invalid regex")

\* Enter on a filter buffer.
commit_filter(s) ==
    LET pattern == Drop(s.cmd_buffer, 1)
        matches(ents) == MatchIndices(pattern, ents)
        found(ents) ==
            IF matches(ents) # << >>
            THEN [s EXCEPT !.search_matches = matches(ents),
                           !.last_search = pattern,
                           !.current_match_idx = 0,
                           !.selected = matches(ents)[1]]
            ELSE ShowStatus([s EXCEPT !.search_matches = << >>,
                                      !.last_search = NoneStr],
                            "No matches")
    IN  IF Compiles(pattern) THEN WithListing(s, found(Listing(s.fs, s.current_path)))
        ELSE ShowStatus(s, "Invalid regex")

\* Enter on any other buffer.
commit_command(s, results) ==
    LET x == execute_command(s, s.cmd_buffer, results)
    IN  [x.st EXCEPT !.current_path = x.path]

key_enter_command(s, results) ==
    LET done == IF StartsWith(s.cmd_buffer, <<"/">>) THEN commit_filter(s)
                ELSE commit_command(s, results)
    IN  IF done.run # "running" THEN done
        ELSE [done EXCEPT !.cmd_buffer = << >>, !.command_mode = FALSE]

\* Escape that also ends the search session.
key_escape_reset(s) ==
    [s EXCEPT !.command_mode = FALSE, !.cmd_buffer = << >>,
              !.last_search = NoneStr, !.search_matches = << >>,
              !.current_match_idx = -1]

key_escape(s) == [s EXCEPT !.command_mode = FALSE, !.cmd_buffer = << >>]

\* The live filter after an edit of the buffer.
live_filter(s) ==
    IF update_selection_from_regex(s.cmd_buffer, s.entries) # -1
    THEN [s EXCEPT !.selected = update_selection_from_regex(s.cmd_buffer, s.entries)]
    ELSE s

key_backspace(s) ==
    IF Len(s.cmd_buffer) > 0
    THEN live_filter([s EXCEPT !.cmd_buffer = DropLast(@)])
    ELSE s

key_tab(s) ==
    IF StartsWith(s.cmd_buffer, CdPrefix)
    THEN LET c == find_autocomplete_suggestion(s.fs, s.cmd_buffer, s.current_path)
         IN  [s EXCEPT !.cmd_buffer = CdPrefix \o c[1] \o c[2]]
    ELSE s

\* A printable key that lets q through to the Normal-mode handler.
key_printable_quit(s, ch) ==
    IF ch = "q" THEN [s EXCEPT !.run = "quit"]
    ELSE IF IsPrintable(ch) THEN live_filter([s EXCEPT !.cmd_buffer = Append(@, ch)])
    ELSE s

key_printable(s, ch) ==
    IF IsPrintable(ch) THEN live_filter([s EXCEPT !.cmd_buffer = Append(@, ch)])
    ELSE s

(***************************************************************************)
(* Normal mode (main, lines 859-985).                                      *)
(***************************************************************************)
\* n / N that stop at the first and the last match.
key_n_clamped(s, key) ==
    IF ~Truthy(s.last_search) THEN s
    ELSE IF s.search_matches = << >> THEN ShowStatus(s, "No matches")
    ELSE LET idx == IF key = "n"
                    THEN Min(s.current_match_idx + 1, Len(s.search_matches) - 1)
                    ELSE Max(s.current_match_idx - 1, 0)
         IN  [s EXCEPT !.current_match_idx = idx,
                       !.selected = s.search_matches[idx + 1]]

\* n / N with a search session.
key_n(s, key) ==
    IF ~Truthy(s.last_search) THEN s
    ELSE IF s.search_matches = << >> THEN ShowStatus(s, "No matches")
    ELSE LET idx == IF key = "n"
                    THEN (s.current_match_idx + 1) % Len(s.search_matches)
                    ELSE (s.current_match_idx - 1) % Len(s.search_matches)
         IN  [s EXCEPT !.current_match_idx = idx,
                       !.selected = s.search_matches[idx + 1]]

\* selected = entries.index(name) when the name is listed.
select_name(s, name) ==
    LET pick(ents) == IF name \in Range(ents)
                      THEN [s EXCEPT !.selected = IndexOf(ents, name)]
                      ELSE s
    IN  WithListing(s, pick(Listing(s.fs, s.current_path)))

key_a(s, keys) ==
    LET c == create_entity(s, s.current_path, keys)
    IN  IF Truthy(c.name) THEN select_name(c.st, c.name) ELSE c.st

key_A(s, keys) ==
    LET inside(ents) ==
            IF InRange(s, ents)
               /\ IsDir(s.fs, Join(s.current_path, ents[s.selected + 1]))
               /\ ents[s.selected + 1] \notin {Dot, DotDot}
            THEN create_entity(s, Join(s.current_path, ents[s.selected + 1]), keys).st
            ELSE s
    IN  WithListing(s, inside(Listing(s.fs, s.current_path)))

key_r(s, keys) ==
    LET rename(ents) ==
            IF ~InRange(s, ents) THEN Raise(s)
            ELSE LET c == rename_entity(s, ents, keys)
                 IN  IF Truthy(c.name) THEN select_name(c.st, c.name) ELSE c.st
    IN  WithListing(s, rename(Listing(s.fs, s.current_path)))

key_d(s, keys) ==
    LET delete(ents) ==
            IF ~InRange(s, ents) THEN Raise(s)
            ELSE delete_entity(s, ents, keys)
    IN  WithListing(s, delete(Listing(s.fs, s.current_path)))

key_up(s) == IF s.selected > 0 THEN [s EXCEPT !.selected = @ - 1] ELSE s

key_down(s) ==
    IF s.selected < Len(s.entries) - 1 THEN [s EXCEPT !.selected = @ + 1] ELSE s

key_left(s) ==
    LET parent == DirName(s.current_path)
    IN  IF IsDir(s.fs, parent) /\ parent # s.current_path
        THEN [s EXCEPT !.current_path = parent, !.selected = 0]
        ELSE s

\* l / Right, and the first half of Enter: into the picked directory.
\* l / Right that empties the clipboard on entering a directory.
key_right_forget(s) ==
    IF ~InRange(s, s.entries) THEN Raise(s)
    ELSE LET full == NormPath(Join(s.current_path, s.entries[s.selected + 1]))
         IN  IF IsDir(s.fs, full)
             THEN [s EXCEPT !.current_path = full, !.selected = 0,
                            !.clipboard = [path |-> NoPath, cut |-> FALSE]]
             ELSE s

key_right(s) ==
    IF ~InRange(s, s.entries) THEN Raise(s)
    ELSE LET full == NormPath(Join(s.current_path, s.entries[s.selected + 1]))
         IN  IF IsDir(s.fs, full)
             THEN [s EXCEPT !.current_path = full, !.selected = 0]
             ELSE s

\* Enter: a directory is entered; a file is handed to the editor, or its
\* path is written out and the program exits.
key_enter(s, nv) ==
    IF ~InRange(s, s.entries) THEN Raise(s)
    ELSE LET full == NormPath(Join(s.current_path, s.entries[s.selected + 1]))
         IN  IF IsDir(s.fs, full) THEN key_right(s)
             ELSE IF nv THEN [Emit(s, Ev("emit", << >>, full, TRUE)) EXCEPT !.run = "emitted"]
             ELSE Emit(s, Ev("editor", << >>, full, TRUE))

\* c, : or / enters command mode.
key_command(s, key) ==
    [s EXCEPT !.command_mode = TRUE,
              !.cmd_buffer = IF key = "/" THEN <<"/">> ELSE << >>]

key_p(s) == [s EXCEPT !.preview_mode = ~@]

key_C(s) ==
    LET copy(ents) == IF InRange(s, ents) THEN copy_entity(s, ents) ELSE s
    IN  WithListing(s, copy(Listing(s.fs, s.current_path)))

key_X(s) ==
    LET cut(ents) == IF InRange(s, ents) THEN cut_entity(s, ents) ELSE s
    IN  WithListing(s, cut(Listing(s.fs, s.current_path)))

\* P: paste, then the listing is read again.
key_P(s) ==
    LET pasted == paste_entity(s)
    IN  IF CanList(pasted.fs, s.current_path) THEN pasted ELSE Raise(pasted)

key_q(s) == [s EXCEPT !.run = "quit"]

(***************************************************************************)
(* The inputs of the model.                                                *)
(***************************************************************************)
\* Buffers typed in command mode: every prefix of one of these can be typed.
Scripts ==
    { <<"/", "f">>, <<"/", "(">>, <<"/", "^", "D">>, <<"/", "z">>,
      <<"c", "d", " ", "d">>, <<"c", "d", " ", "z", ";", "x">>,
      <<"c", "d", " ", "/">>, <<"x", ";", "c", "d", " ", ".", ".">> }

Typable(buffer) == \E sc \in Scripts : StartsWith(sc, buffer)

\* The outcomes of a shell sub-command.
ShellOutcomes ==
    { [out |-> << >>, err |-> << >>, rc |-> 0],
      [out |-> <<"o">>, err |-> << >>, rc |-> 1] }

\* What is typed at the Create and Rename prompts.
NameKeys == { <<"e", Enter>>, <<"e", ".", "t", Enter>>, <<Enter>>, <<Esc>> }

\* What is typed at the Delete prompt.
ConfirmKeys ==
    { <<Enter>>, <<Esc>>, <<"y", Enter>>, <<"Y", "e", "s", Enter>>, <<"n", Enter>>,
      <<"n", "y", Enter>>, <<"y", Backspace, Enter>>, <<"y", Esc>> }

\* Keys bound to nothing in Normal mode.
OtherKeys == {"z"}

d == <<"d">>
g == <<"g">>
f_t == <<"f", ".", "t">>

\* The filesystem at the start of the runs that change no file.
InitFs == (Root :> "dir") @@ (<<d>> :> "dir") @@ (<<d, g>> :> "file")
          @@ (<<f_t>> :> "file")

\* The program after main's first redraw, started in a directory of f.
InitWith(f, modes) ==
    /\ fs = f
    /\ neovim \in modes
    /\ current_path \in {p \in DOMAIN f : f[p] = "dir"}
    /\ selected = 0
    /\ command_mode = FALSE
    /\ cmd_buffer = << >>
    /\ preview_mode = FALSE
    /\ last_search = NoneStr
    /\ search_matches = << >>
    /\ current_match_idx = -1
    /\ clipboard = [path |-> NoPath, cut |-> FALSE]
    /\ entries = Listing(fs, current_path)
    /\ run = "running"
    /\ events = << >>
    /\ file_ops = 0

\* The program started in the root directory, outside the editor.
BrowserIdle == InitWith(InitFs, {FALSE}) /\ current_path = Root

Init == InitWith(InitFs, BOOLEAN) /\ pager = NoPager /\ view = NoView

InitFiles == BrowserIdle /\ pager = NoPager /\ view = NoView

\* key = stdscr.getch(): the state with the key read noted, for the keys
\* whose steps cannot be told from what they change.
KeyRead(key) == Ev("key", <<key>>, NoPath, TRUE)

Pressed(key) == Emit(Cur, KeyRead(key))

CmdEnter ==
    /\ Command
    /\ NoFileOp
    /\ \E results \in [1..ShellCount(cmd_buffer) -> ShellOutcomes] :
          Apply(key_enter_command(Pressed(Enter), results))

CmdEscape == Command /\ NoFileOp /\ Apply(key_escape(Pressed(Esc)))

CmdBackspace == Command /\ NoFileOp /\ Apply(key_backspace(Cur))

CmdTab == Command /\ NoFileOp /\ Apply(key_tab(Pressed(Tab)))

CmdPrintable ==
    /\ Command
    /\ NoFileOp
    /\ \E ch \in Range(Alphabet) :
          /\ Typable(Append(cmd_buffer, ch))
          /\ Apply(key_printable(Cur, ch))

KeySearch == Normal /\ NoFileOp /\ \E key \in {"n", "N"} : Apply(key_n(Pressed(key), key))

KeyCreate == Normal /\ FileOp /\ \E keys \in NameKeys : Apply(key_a(Cur, keys))

KeyCreateInside == Normal /\ FileOp /\ \E keys \in NameKeys : Apply(key_A(Cur, keys))

KeyRename == Normal /\ FileOp /\ \E keys \in NameKeys : Apply(key_r(Cur, keys))

KeyDelete == Normal /\ FileOp /\ \E keys \in ConfirmKeys : Apply(key_d(Cur, keys))

KeyUp == Normal /\ NoFileOp /\ Apply(key_up(Cur))

KeyDown == Normal /\ NoFileOp /\ Apply(key_down(Cur))

KeyLeft == Normal /\ NoFileOp /\ Apply(key_left(Cur))

KeyRight == Normal /\ NoFileOp /\ Apply(key_right(Cur))

KeyEnter == Normal /\ NoFileOp /\ Apply(key_enter(Cur, neovim))

KeyCommand == Normal /\ NoFileOp /\ \E key \in {"c", ":", "/"} : Apply(key_command(Cur, key))

KeyPreview == Normal /\ NoFileOp /\ Apply(key_p(Cur))

KeyCopy == Normal /\ FileOp /\ Apply(key_C(Cur))

KeyCut == Normal /\ FileOp /\ Apply(key_X(Cur))

KeyPaste == Normal /\ FileOp /\ Apply(key_P(Cur))

KeyQuit == Normal /\ NoFileOp /\ Apply(key_q(Cur))

KeyOther == Normal /\ NoFileOp /\ \E key \in OtherKeys : Apply(Cur)

MoveKeys == KeyUp \/ KeyDown \/ KeyLeft \/ KeyRight

OpenKeys == KeyEnter \/ KeyPreview \/ KeyQuit \/ KeyOther

FileKeys ==
    \/ KeyCreate \/ KeyCreateInside \/ KeyRename \/ KeyDelete
    \/ KeyCopy \/ KeyCut \/ KeyPaste

CommandKeys ==
    \/ KeyCommand \/ KeySearch
    \/ CmdEnter \/ CmdEscape \/ CmdBackspace \/ CmdTab \/ CmdPrintable

Next == MoveKeys \/ OpenKeys \/ FileKeys \/ CommandKeys

Spec == Init /\ [][Next]_vars

\* The browser with the keys that change no file: navigation, the command
\* line and the search.
NextCommand == MoveKeys \/ OpenKeys \/ CommandKeys

SpecCommand == Init /\ [][NextCommand]_vars

\* The browser with navigation and the file and clipboard keys.
NextFiles == MoveKeys \/ FileKeys

SpecFiles == InitFiles /\ [][NextFiles]_vars

(***************************************************************************)
(* The pager on its own: opened on a text, then keys until q.              *)
(***************************************************************************)
\* Bounds: the longest text, and the terminal heights tried.
MaxPagerLines == 6
MinTermH == 7
MaxTermH == 12

PagerKeys == {"DOWN", "j", "UP", "k", "NPAGE", "PPAGE", "g", "G", "z"}

\* The texts paged: n lines.
PagerText(n) == [i \in 1..n |-> <<"x">>]

InitPager ==
    /\ BrowserIdle
    /\ view = NoView
    /\ \E n \in 1..MaxPagerLines, h \in MinTermH..MaxTermH :
          pager = [state |-> "open", lines |-> PagerText(n), h |-> h, offset |-> 0]

\* One key other than q, and the redraw after it.
PagerKey ==
    /\ pager.state = "open"
    /\ \E key \in PagerKeys :
          LET rows == max_lines(pager.h)
              n == Len(pager.lines)
              offset == pager_key(key, pager.offset, n, rows)
          IN  pager' = [pager EXCEPT !.offset = offset,
                                     !.state = IF pager_draws(offset, n, rows)
                                               THEN "open" ELSE "raised"]
    /\ UNCHANGED <<browser, view>>

PagerQuit ==
    /\ pager.state = "open"
    /\ pager' = [pager EXCEPT !.state = "closed"]
    /\ UNCHANGED <<browser, view>>

NextPager == PagerKey \/ PagerQuit

SpecPager == InitPager /\ [][NextPager]_vars

(***************************************************************************)
(* The redraw on its own: the offsets of both renderers for a listing of   *)
(* `total` entries on a terminal of h rows.                                *)
(***************************************************************************)
MaxTotal == 6
MaxViewH == 8

InitView ==
    /\ BrowserIdle
    /\ pager = NoPager
    /\ \E h \in 0..MaxViewH, cm \in BOOLEAN, total \in 1..MaxTotal,
          sel \in 0..MaxTotal :
          view = [h |-> h, command_mode |-> cm, total |-> total, selected |-> sel,
                  drawn |-> FALSE, offset |-> 0, preview_offset |-> 0]

Redraw ==
    /\ view' = [view EXCEPT
                   !.drawn = TRUE,
                   !.offset = directory_offset(view.total, view.selected,
                                               max_display(view.h, view.command_mode)),
                   !.preview_offset = preview_offset(view.total, view.selected,
                                               max_display(view.h, view.command_mode))]
    /\ UNCHANGED <<browser, pager>>

\* The selection moves between redraws.
ViewMove ==
    /\ view.drawn
    /\ \E sel \in 0..MaxTotal : view' = [view EXCEPT !.selected = sel, !.drawn = FALSE]
    /\ UNCHANGED <<browser, pager>>

NextView == Redraw \/ ViewMove

SpecView == InitView /\ [][NextView]_vars

(***************************************************************************)
(* The command line on its own: a buffer of up to MaxParts sub-commands    *)
(* is in the command line, and Enter or Escape is pressed.                 *)
(***************************************************************************)
MaxParts == 3

\* The pieces between the semicolons.
Pieces ==
    { <<"c", "d", " ", "d">>, <<"c", "d", " ", ".", ".">>, <<"c", "d", " ", "z">>,
      <<"c", "d">>, <<" ", "x", " ">>, << >> }

RECURSIVE JoinPieces(_)
JoinPieces(ps) ==
    IF Len(ps) = 1 THEN ps[1] ELSE ps[1] \o <<";">> \o JoinPieces(Tail(ps))

Buffers ==
    UNION { {JoinPieces(ps) : ps \in [1..n -> Pieces]} : n \in 1..MaxParts }

InitDispatch ==
    /\ fs = InitFs
    /\ neovim = FALSE
    /\ current_path \in {Root, <<d>>}
    /\ entries = Listing(fs, current_path)
    /\ selected \in 0..(Len(entries) - 1)
    /\ command_mode = TRUE
    /\ cmd_buffer \in Buffers
    /\ preview_mode = FALSE
    /\ last_search = NoneStr
    /\ search_matches = << >>
    /\ current_match_idx = -1
    /\ clipboard = [path |-> NoPath, cut |-> FALSE]
    /\ run = "running"
    /\ events = << >>
    /\ file_ops = 0
    /\ pager = NoPager
    /\ view = NoView

NextDispatch == CmdEnter \/ CmdEscape

SpecDispatch == InitDispatch /\ [][NextDispatch]_vars

(***************************************************************************)
(* The search on its own: a filter has been typed in a directory of up to  *)
(* four files, then Enter, Escape, n and N are pressed.                    *)
(***************************************************************************)
apple == <<"a", "p", "p", "l", "e">>
avocado == <<"a", "v", "o", "c", "a", "d", "o">>
banana == <<"b", "a", "n", "a", "n", "a">>
Ant == <<"A", "n", "t">>

\* The root directory holding the files of S.
Tree(S) == [q \in {Root} \cup { <<name>> : name \in S } |->
               IF q = Root THEN "dir" ELSE "file"]

FilterTrees == { Tree(S) : S \in SUBSET {apple, avocado, banana, Ant} }

FilterBuffers ==
    { <<"/">>, <<"/", "^", "a">>, <<"/", "a">>, <<"/", "a", "n">>, <<"/", "(">>,
      <<"/", "z">>, <<"/", "b", ".">> }

\* The variables hold the state s.
Holds(s) ==
    /\ fs = s.fs
    /\ current_path = s.current_path
    /\ selected = s.selected
    /\ command_mode = s.command_mode
    /\ cmd_buffer = s.cmd_buffer
    /\ preview_mode = s.preview_mode
    /\ last_search = s.last_search
    /\ search_matches = s.search_matches
    /\ current_match_idx = s.current_match_idx
    /\ clipboard = s.clipboard
    /\ entries = s.entries
    /\ run = s.run
    /\ events = s.events

\* The state after the keys of chars are typed in command mode.
RECURSIVE TypeAll(_, _)
TypeAll(s, chars) ==
    IF chars = << >> THEN s
    ELSE LET typed == draw(key_printable(s, chars[1]))
         IN  IF typed.command_mode THEN TypeAll(typed, Tail(chars)) ELSE typed

\* The state after "/" is pressed in Normal mode in the root of f with the
\* selection on sel.
Slash(f, sel) ==
    [fs |-> f, current_path |-> Root, selected |-> sel, command_mode |-> TRUE,
     cmd_buffer |-> <<"/">>, preview_mode |-> FALSE, last_search |-> NoneStr,
     search_matches |-> << >>, current_match_idx |-> -1,
     clipboard |-> [path |-> NoPath, cut |-> FALSE],
     entries |-> Listing(f, Root), run |-> "running", events |-> << >>]

InitFilter ==
    /\ \E f \in FilterTrees, buffer \in FilterBuffers :
          \E sel \in 0..(Len(Listing(f, Root)) - 1) :
              Holds(TypeAll(Slash(f, sel), Tail(buffer)))
    /\ neovim = FALSE
    /\ file_ops = 0
    /\ pager = NoPager
    /\ view = NoView

NextFilter == CmdEnter \/ CmdEscape \/ KeySearch

SpecFilter == InitFilter /\ [][NextFilter]_vars

(***************************************************************************)
(* Completion on its own: "cd " and a fragment have been typed, then Tab,  *)
(* Backspace and Escape are pressed.                                       *)
(***************************************************************************)
alpha == <<"a", "l", "p", "h", "a">>
alphabet == <<"a", "l", "p", "h", "a", "b", "e", "t">>
beta == <<"b", "e", "t", "a">>

\* The trees of up to MaxNodes of these nodes, alpha and alphabet a file or
\* a directory each.
CompleteNodes ==
    { <<alpha>>, <<alphabet>>, <<beta>>, <<alpha, alphabet>>, <<alpha, beta>> }

CompleteTrees ==
    { [q \in {Root} \cup S |-> IF q = Root \/ q \in K THEN "dir" ELSE "file"] :
        <<S, K>> \in
            { sk \in (SUBSET CompleteNodes) \X (SUBSET { <<alpha>>, <<alphabet>> }) :
                /\ sk[2] \subseteq sk[1]
                /\ Cardinality(sk[1]) <= MaxNodes
                /\ \A q \in sk[1] : Len(q) = 2 => DirName(q) \in sk[2] } }

Fragments ==
    { << >>,
      <<"a">>,
      <<"a", "l", "p", "h">>,
      <<"a", "l", "p", "h", "a">>,
      <<"a", "l", "p", "h", "a", "/">>,
      <<"a", "l", "p", "h", "a", "/", "a">>,
      <<"/", "a", "l", "p", "h", "a", "/", "b">>,
      <<"b">>,
      <<"z">>,
      <<"b", "e", "t", "a", "/">>,
      <<"a", "l", "p", "h", "a", "b", "e", "t", "/", "x">>,
      <<"/">> }

\* The state after "c" is pressed in Normal mode in the directory p of f.
Colon(f, p) ==
    [Slash(f, 0) EXCEPT !.current_path = p, !.cmd_buffer = << >>,
                        !.entries = Listing(f, p)]

InitComplete ==
    /\ \E f \in CompleteTrees, fragment \in Fragments :
          \E p \in {q \in DOMAIN f : f[q] = "dir"} :
              Holds(TypeAll(Colon(f, p), CdPrefix \o fragment))
    /\ neovim = FALSE
    /\ file_ops = 0
    /\ pager = NoPager
    /\ view = NoView

NextComplete == CmdTab \/ CmdBackspace \/ CmdEscape

SpecComplete == InitComplete /\ [][NextComplete]_vars

(***************************************************************************)
(* The pager over texts with banners, hints, hunk markers and diff lines.  *)
(***************************************************************************)
MaxDrawLines == 2

HunkLine == <<"@", "@", " ", "-", "1", " ", "+", "1", " ", "@", "@", " ", "c">>
SpacedHunkLine == <<"a", " ", "@", "@", " ", "b", " ", "@", "@">>
AddedHunkLine == <<"+", "@", "@", " ", "a", " ", "@", "@">>
HintLine == <<"(", "u", "s", "e", " ", "@", "@", "x", "@", "@", ")">>
AddedLine == <<"+", "a">>
RemovedLine == <<"-", "a">>
HeaderLine == <<"+", "+", "+", " ", "a">>
PlainLine == <<"a">>
AddedPlusesLine == <<"+", "+", "+", "a">>
MinusHeaderLine == <<"-", "-", "-", " ", "a">>
DashesLine == <<"-", "-", "-">>

DrawLines ==
    { StagedBanner, UnstagedBanner, HunkLine, SpacedHunkLine, AddedHunkLine,
      HintLine, AddedLine, RemovedLine, HeaderLine, PlainLine, AddedPlusesLine,
      MinusHeaderLine, DashesLine }

InitPagerDraw ==
    /\ BrowserIdle
    /\ view = NoView
    /\ \E n \in 1..MaxDrawLines, h \in MinTermH..(MinTermH + 1) :
          \E text \in [1..n -> DrawLines] :
              pager = [state |-> "open", lines |-> text, h |-> h, offset |-> 0]

SpecPagerDraw == InitPagerDraw /\ [][NextPager]_vars

(***************************************************************************)
(* Command mode under the keys that act in Normal mode: the keys are typed *)
(* into buffers, up to MaxTyped of them after the key that opened the mode. *)
(***************************************************************************)
MaxTyped == 1

NormalKeys ==
    {"q", "d", "r", "a", "A", "C", "X", "P", "h", "j", "k", "l", "n", "N", "p"}

\* The number of keys typed into a buffer; the "/" of a filter is there
\* from the start.
Typed(buffer) == IF StartsWith(buffer, <<"/">>) THEN Len(buffer) - 1 ELSE Len(buffer)

CmdNormalKey ==
    /\ Command
    /\ NoFileOp
    /\ Typed(cmd_buffer) < MaxTyped
    /\ \E key \in NormalKeys : Apply(key_printable(Pressed(key), key))

NextCapture ==
    \/ MoveKeys
    \/ KeyCommand \/ KeySearch
    \/ CmdEnter \/ CmdEscape \/ CmdBackspace \/ CmdTab \/ CmdNormalKey

SpecCapture == Init /\ [][NextCapture]_vars

(***************************************************************************)
(* Shell sub-commands with every kind of result: output, errors, both,     *)
(* white space only, nothing, and either return code.                      *)
(***************************************************************************)
PagedOutcomes ==
    [out : {<< >>, <<" ">>, <<"o">>}, err : {<< >>, <<"\n">>, <<"e">>}, rc : {0, 1}]

ShellBuffers == { <<"x">>, <<"x", ";", "y">> }

InitShell ==
    /\ Holds(Colon(InitFs, Root))
    /\ neovim = FALSE
    /\ file_ops = 0
    /\ pager = NoPager
    /\ view = NoView

\* A shell buffer is typed at once.
CmdTypeShell ==
    /\ Command
    /\ NoFileOp
    /\ cmd_buffer = << >>
    /\ \E buffer \in ShellBuffers : Apply(TypeAll(Cur, buffer))

CmdEnterShell ==
    /\ Command
    /\ NoFileOp
    /\ \E results \in [1..ShellCount(cmd_buffer) -> PagedOutcomes] :
          Apply(key_enter_command(Pressed(Enter), results))

NextShell == KeyCommand \/ CmdTypeShell \/ CmdEnterShell \/ CmdEscape

SpecShell == InitShell /\ [][NextShell]_vars

(***************************************************************************)
(* Properties.                                                             *)
(***************************************************************************)
\* The events of one type, in order.
Only(evs, types) == SelectSeq(evs, LAMBDA e : e.type \in types)

\* C1: in every state of the main loop the selection indexes the listing of
\* the current directory as last rebuilt: 0 <= selected < len(entries).
SelectionInRange ==
    run = "running" => 0 <= selected /\ selected < Len(entries)

\* C2: every step that changes current_path leaves selected at 0.
PathChangeResetsSelection ==
    [][current_path' # current_path => selected' = 0]_vars

\* C3: every step that changes current_path leaves no search session that
\* n or N would take an index from.
SearchLive == Truthy(last_search) /\ search_matches # << >>

PathChangeEndsSearch ==
    [][current_path' # current_path => ~SearchLive']_vars

\* C4: the main loop never ends with an unhandled error; it ends only by q
\* or by Enter on a file in the emit-path mode.
NoUnhandledError == run \in {"running", "quit", "emitted"}

\* C5: for total >= 1, visible rows >= 1 and 0 <= selected < total, the
\* offset of either renderer is at least 0, at most selected, has selected
\* inside the min(rows, total) rows drawn from it, and is at most
\* max(0, total - rows).
Visible(offset, total, sel, rows) ==
    /\ offset >= 0
    /\ offset <= sel
    /\ sel < offset + Min(rows, total)
    /\ offset <= Max(0, total - rows)

ViewRows == max_display(view.h, view.command_mode)

ViewCase == view.drawn /\ view.total >= 1 /\ ViewRows >= 1 /\ view.selected < view.total

ViewportShowsSelection ==
    ViewCase => /\ Visible(view.offset, view.total, view.selected, ViewRows)
                /\ Visible(view.preview_offset, view.total, view.selected, ViewRows)

\* A redraw of a listing longer than the screen, scrolled to a selection
\* below the first screenful and above the last row.
ViewportScrolled ==
    /\ ViewCase
    /\ view.total > ViewRows
    /\ view.selected >= ViewRows
    /\ view.selected < view.total - 1
    /\ view.offset > 0

\* C6: the offset of the pager stays within
\* [0, max(0, len(lines) - visible rows)] after any keys.
PagerOffsetInRange ==
    /\ pager.offset >= 0
    /\ pager.offset <= Max(0, Len(pager.lines) - max_lines(pager.h))

\* C7: of two consecutive pastes of a copied source into one directory, the
\* second writes to a name other than the first's, a name not there before,
\* and succeeds.
CopyPasted(evs) == evs # << >> /\ evs[1].type \in {"copy2", "copytree"}

SecondPasteDistinct ==
    [][CopyPasted(events) /\ events[1].ok /\ CopyPasted(events')
          /\ current_path' = current_path
       => /\ events'[1].path # events[1].path
          /\ ~Exists(fs, events'[1].path)
          /\ events'[1].ok]_vars

\* C8: a successful paste of a cut source empties the clipboard, and a paste
\* in the state it leaves reports "Clipboard is empty." and calls nothing;
\* a successful paste of a copied source leaves the clipboard as it was.
EmptyClipboard == [path |-> NoPath, cut |-> FALSE]

Moved(evs) == evs # << >> /\ evs[1].type = "move" /\ evs[1].ok

ClipboardEmptyShown == <<Ev("status", <<"Clipboard is empty.">>, NoPath, TRUE)>>

CutPasteSingleUse ==
    [][/\ Moved(events') /\ clipboard.cut =>
            /\ clipboard' = EmptyClipboard
            /\ paste_entity(Cur)'.fs = fs'
            /\ paste_entity(Cur)'.events = ClipboardEmptyShown
       /\ clipboard = EmptyClipboard /\ events' = ClipboardEmptyShown => fs' = fs
       /\ CopyPasted(events') /\ events'[1].ok =>
            /\ clipboard' = clipboard
            /\ ~clipboard'.cut
            /\ clipboard'.path # NoPath]_vars

\* f.t was cut, moved into d by a paste, and a second paste found the
\* clipboard empty.
SecondPasteAfterCut ==
    /\ <<d, f_t>> \in DOMAIN fs
    /\ <<f_t>> \notin DOMAIN fs
    /\ clipboard = EmptyClipboard
    /\ events = ClipboardEmptyShown

\* C9: a Delete whose answer does not begin with y or Y, the empty answer
\* and Escape included, leaves the filesystem as it was; an answer that
\* does calls the removal of the selected entry.
Asked(evs) == evs # << >> /\ evs[1].type = "prompt"

BeginsWithY(answer) ==
    answer # NoneStr /\ answer # << >> /\ answer[1] \in {"y", "Y"}

DeleteNeedsYes ==
    [][Asked(events') =>
          IF BeginsWithY(events'[1].text)
          THEN /\ Len(events') >= 2
               /\ events'[2].type \in {"rmtree", "remove"}
               /\ events'[2].path = Join(current_path, entries[selected + 1])
               /\ events'[2].ok => ~Exists(fs', events'[2].path)
          ELSE /\ fs' = fs
               /\ events' = <<events'[1]>>]_vars

\* Delete was answered "ny".
DeleteDeclined == Asked(events) /\ events[1].text = <<"n", "y">>

\* C10: a committed buffer that is no filter is split on ";" into trimmed,
\* non-empty sub-commands handled left to right; a cd moves the path only to
\* an existing directory; a cd that fails leaves the path, shows an error
\* and the rest still runs; each shell sub-command runs in the path the cds
\* before it produced; current_path afterwards is the target of the last cd
\* that succeeded, or unchanged.
Committed ==
    /\ command_mode /\ ~command_mode'
    /\ ~StartsWith(cmd_buffer, <<"/">>)
    /\ events' # << >> /\ events'[1] = KeyRead(Enter)

\* The path in force after the first n events of a commit from path p.
RECURSIVE PathAfter(_, _, _)
PathAfter(evs, n, p) ==
    IF n = 0 THEN p
    ELSE IF evs[n].type = "cd" /\ evs[n].ok THEN evs[n].path
    ELSE PathAfter(evs, n - 1, p)

Trimmed(part) ==
    /\ part # << >>
    /\ part[1] # " " /\ part[Len(part)] # " "
    /\ \A i \in 1..Len(part) : part[i] # ";"

DispatchInOrder ==
    [][Committed =>
          LET evs == events'
              run_parts == Only(evs, {"cd", "shell"})
          IN  /\ [i \in 1..Len(run_parts) |-> run_parts[i].text] = Parts(cmd_buffer)
              /\ \A i \in 1..Len(run_parts) : Trimmed(run_parts[i].text)
              /\ \A i \in 1..Len(evs) :
                    /\ evs[i].type = "cd" =>
                          /\ evs[i].ok = IsDir(fs, evs[i].path)
                          /\ ~evs[i].ok => /\ i < Len(evs)
                                           /\ evs[i + 1].type = "error"
                    /\ evs[i].type = "shell" =>
                          evs[i].path = PathAfter(evs, i - 1, current_path)
              /\ current_path' = PathAfter(evs, Len(evs), current_path)
              /\ fs' = fs]_vars

\* A commit in which a cd failed, a later cd succeeded, and a shell
\* sub-command after both ran in the directory entered.
DispatchedPastFailure ==
    \E i, j, k \in 1..Len(events) :
        /\ i < j /\ j < k
        /\ events[i].type = "cd" /\ ~events[i].ok
        /\ events[j].type = "cd" /\ events[j].ok
        /\ events[k].type = "shell" /\ events[k].path = events[j].path
        /\ current_path = events[j].path
        /\ events[j].path # Root
StatusShown(text) == Ev("status", <<text>>, NoPath, TRUE)

\* Enter was read in command mode on a filter.
FilterCommitted ==
    /\ command_mode /\ StartsWith(cmd_buffer, <<"/">>)
    /\ events' # << >> /\ events'[1] = KeyRead(Enter)

\* C11: Enter on a filter whose pattern does not compile shows a status and
\* leaves the browser in command mode with the buffer as typed.
InvalidRegexKeepsInput ==
    [][FilterCommitted /\ ~Compiles(Drop(cmd_buffer, 1)) =>
          /\ StatusShown("Invalid regex") \in Range(events')
          /\ command_mode'
          /\ cmd_buffer' = cmd_buffer]_vars

\* C12: Enter on a filter whose pattern compiles makes search_matches the
\* ascending indices of the entries of the fresh listing, ".." and "."
\* left out, whose names the pattern matches; when there are any, the
\* cursor is 0 and selected is the first of them.
Matching(pattern, ents) ==
    {i \in 0..(Len(ents) - 1) :
        ents[i + 1] \notin {DotDot, Dot} /\ Search(pattern, ents[i + 1])}

Ascending(seq) == \A i, j \in 1..Len(seq) : i < j => seq[i] < seq[j]

FilterCommitInOrder ==
    [][FilterCommitted /\ Compiles(Drop(cmd_buffer, 1)) =>
          LET hits == Matching(Drop(cmd_buffer, 1), Listing(fs, current_path))
          IN  /\ Ascending(search_matches')
              /\ Range(search_matches') = hits
              /\ hits # {} => /\ current_match_idx' = 0
                              /\ selected' = search_matches'[1]
                              /\ \A i \in hits : selected' <= i]_vars

\* The names of the matches, in the order of search_matches.
MatchedNames == [i \in 1..Len(search_matches) |-> entries[search_matches[i] + 1]]

\* "/an" was confirmed over Ant, apple, avocado and banana: Ant and banana
\* match, in that order, and Ant is selected.
FilterCommittedOverFour ==
    /\ events = <<KeyRead(Enter)>>
    /\ last_search = <<"a", "n">>
    /\ entries = <<DotDot, Ant, apple, avocado, banana>>
    /\ MatchedNames = <<Ant, banana>>
    /\ selected = 1

\* C13: with a confirmed filter that matched, the empty pattern of the
\* buffer "/" included, n sets the cursor to (cursor + 1) mod len(matches),
\* N to (cursor - 1) mod len(matches), and selected to matches[cursor].
SearchKeyRead(key) == events' # << >> /\ events'[1] = KeyRead(key)

CyclicMatchNavigation ==
    [][last_search # NoneStr /\ search_matches # << >> /\ ~command_mode =>
          /\ SearchKeyRead("n") =>
                /\ current_match_idx' = (current_match_idx + 1) % Len(search_matches)
                /\ selected' = search_matches[current_match_idx' + 1]
          /\ SearchKeyRead("N") =>
                /\ current_match_idx' = (current_match_idx - 1) % Len(search_matches)
                /\ selected' = search_matches[current_match_idx' + 1]]_vars

\* The state after the keys n / N of keys, each followed by its redraw.
RECURSIVE AfterSearchKeys(_, _)
AfterSearchKeys(s, keys) ==
    IF keys = << >> THEN s
    ELSE AfterSearchKeys(draw(key_n(s, keys[1])), Tail(keys))

SelectedAfter(keys) == entries[AfterSearchKeys(Cur, keys).selected + 1]

\* A filter was just confirmed, with apple and avocado its matches.
AppleAvocadoConfirmed ==
    /\ events = <<KeyRead(Enter)>>
    /\ MatchedNames = <<apple, avocado>>
    /\ current_match_idx = 0

\* C14, as stated: from there n, n, N leaves the selection on apple.
RoundTripOnApple ==
    AppleAvocadoConfirmed => SelectedAfter(<<"n", "n", "N">>) = apple

\* C14, amended: n, n leaves the selection back on apple, and so does n, N.
RoundTripWraps ==
    AppleAvocadoConfirmed =>
        /\ SelectedAfter(<<"n", "n">>) = apple
        /\ SelectedAfter(<<"n", "N">>) = apple

\* n was read with avocado, the last of the two matches, selected, and the
\* cursor wrapped to apple.
WrappedToApple ==
    /\ events = <<KeyRead("n")>>
    /\ Truthy(last_search)
    /\ MatchedNames = <<apple, avocado>>
    /\ current_match_idx = 0
    /\ entries[selected + 1] = apple
\* C16: the scroll offset of every drawn frame is the reference function of
\* (total, selected, visible rows) alone - 0 if total <= rows, else 0 if
\* selected < rows, else min(selected - (rows - 1), total - rows) - in the
\* plain renderer and in the preview renderer alike, so a redraw of the same
\* inputs changes nothing.
ReferenceOffset(total, sel, rows) ==
    CASE total <= rows -> 0
      [] total > rows /\ sel < rows -> 0
      [] OTHER -> Min(sel - (rows - 1), total - rows)

OffsetIsReference ==
    /\ [](view.drawn =>
            /\ view.offset = ReferenceOffset(view.total, view.selected, ViewRows)
            /\ view.preview_offset =
                   ReferenceOffset(view.total, view.selected, ViewRows))
    /\ [][view.drawn /\ view'.drawn => view' = view]_vars

\* A frame drawn with the selection below the window and above the last
\* entry: the offset is neither 0 nor total - rows.
OffsetMidList ==
    /\ view.drawn
    /\ view.selected < view.total - 1
    /\ view.offset > 0
    /\ view.offset < view.total - ViewRows
    /\ view.preview_offset = view.offset

\* C17: Escape in command mode sets the mode to Normal and empties the
\* buffer; the path, the selection, the preview flag, the search session,
\* the clipboard and the filesystem stay as they were and nothing is run.
EscapeRead == command_mode /\ events' # << >> /\ events'[1] = KeyRead(Esc)

EscapeOnlyLeavesMode ==
    [][EscapeRead =>
          /\ ~command_mode'
          /\ cmd_buffer' = << >>
          /\ UNCHANGED <<current_path, selected, preview_mode, last_search,
                         search_matches, current_match_idx, clipboard, fs>>
          /\ events' = <<KeyRead(Esc)>>
          /\ run' = run]_vars

\* Escape was read with a search session live and a selection made.
EscapedWithSession ==
    /\ events = <<KeyRead(Esc)>>
    /\ ~command_mode
    /\ last_search # NoneStr
    /\ search_matches # << >>
    /\ selected > 0

\* C20: after Enter on a filter buffer the search session is either the one
\* of that filter or none: the matches of an earlier filter are no longer
\* what n / N step through.
NewFilterDiscardsSession ==
    [][FilterCommitted /\ last_search # NoneStr =>
          \/ ~Truthy(last_search')
          \/ /\ Compiles(Drop(cmd_buffer, 1))
             /\ last_search' = Drop(cmd_buffer, 1)
             /\ Range(search_matches') =
                    Matching(Drop(cmd_buffer, 1), Listing(fs, current_path))]_vars
\* C15: Tab on "cd <fragment>", the fragment split at its last separator
\* into a directory part and a partial name, keeps the fragment as the base
\* and appends a suffix: empty and unmarked when the directory cannot be
\* listed or no name in it begins with the partial name; the rest of the
\* name, with "/" exactly when it is a directory, when one name does; the
\* rest of the longest common prefix, without "/" and unmarked, when
\* several do (alpha and alphabet with "alph" give "a").
TabRead ==
    /\ command_mode /\ StartsWith(cmd_buffer, CdPrefix)
    /\ events' # << >> /\ events'[1] = KeyRead(Tab)

CompletionAsSpecified ==
    [][TabRead =>
          LET fragment == Drop(cmd_buffer, 3)
              result == find_autocomplete_suggestion(fs, cmd_buffer, current_path)
              seps == {i \in 1..Len(fragment) : fragment[i] = "/"}
              cut == IF seps = {} THEN 0 ELSE CHOOSE i \in seps : \A j \in seps : j <= i
              dir_part == SubSeq(fragment, 1, cut)
              partial == SubSeq(fragment, cut + 1, Len(fragment))
              dir == IF IsAbs(dir_part) THEN ParseAbs(dir_part)
                     ELSE NormPath(current_path \o Split(dir_part, "/"))
              names == IF CanList(fs, dir)
                       THEN {e \in ListDir(fs, dir) : StartsWith(e, partial)}
                       ELSE {}
              common == partial \o result[2]
          IN  /\ result[1] = fragment
              /\ cmd_buffer' = cmd_buffer \o result[2]
              /\ names = {} => result[2] = << >> /\ ~result[3]
              /\ \A e \in names :
                    names = {e} =>
                       /\ result[3] = IsDir(fs, Join(dir, e))
                       /\ result[2] = Drop(e, Len(partial))
                                         \o (IF result[3] THEN <<"/">> ELSE << >>)
              /\ Cardinality(names) > 1 =>
                    /\ ~result[3]
                    /\ \A e \in names : StartsWith(e, common)
                    /\ \A ch \in Range(Alphabet) :
                          \E e \in names : ~StartsWith(e, Append(common, ch))
              /\ names = {alpha, alphabet} /\ partial = SubSeq(alpha, 1, 4) =>
                    result[2] = <<"a">>]_vars

\* Tab was read in a directory holding alpha and alphabet, and the buffer
\* ends on alpha, the common prefix of the two.
CompletedToCommonPrefix ==
    /\ events = <<KeyRead(Tab)>>
    /\ command_mode
    /\ current_path = Root
    /\ {alpha, alphabet} \subseteq ListDir(fs, Root)
    /\ cmd_buffer = CdPrefix \o alpha
\* What the open pager shows.
Screen == pager_screen(pager.lines, pager.offset, max_lines(pager.h))

PagerShown == pager.state = "open" /\ pager.offset >= 0

\* The positions of the "@@ ... @@" markers of a line: <<i, j>> with "@@" at
\* i and again at j, past the first.
Markers(raw) ==
    LET At(k) == raw[k] = "@" /\ raw[k + 1] = "@"
    IN  {ij \in (1..(Len(raw) - 1)) \X (1..(Len(raw) - 1)) :
            ij[2] >= ij[1] + 2 /\ At(ij[1]) /\ At(ij[2])}

\* C18: every line shown that holds an "@@ ... @@" marker is drawn as three
\* spans - the text before, the marker highlighted, the text after - the
\* marker being the first, minimal "@@...@@", whatever the section is and
\* whether or not the line begins with "+" or "-".
HunkLinesSplit ==
    PagerShown =>
        \A r \in 1..Len(Screen) :
            LET raw == PyIndex(pager.lines, Screen[r].idx)
                first == CHOOSE ij \in Markers(raw) :
                             \A kl \in Markers(raw) :
                                 ij[1] < kl[1] \/ (ij[1] = kl[1] /\ ij[2] <= kl[2])
            IN  Markers(raw) # {} =>
                    Screen[r].spans =
                        <<Span(SubSeq(raw, 1, first[1] - 1), "none"),
                          Span(SubSeq(raw, first[1], first[2] + 1), "color_pair(1)"),
                          Span(SubSeq(raw, first[2] + 2, Len(raw)), "none")>>

\* C19: every line shown is drawn as it is when the whole text is drawn from
\* its top, the section being that of the last banner above the line in the
\* text, at every offset.
SectionFromTop ==
    PagerShown =>
        LET Whole == pager_screen(pager.lines, 0, Len(pager.lines))
        IN  \A r \in 1..Len(Screen) :
                Screen[r].spans = Whole[Screen[r].idx + 1].spans
\* C21: the clipboard changes only on Copy (the selected path, not cut), on
\* Cut (the selected path, cut) and on a paste of a cut source that
\* succeeds (emptied); every other step, a paste of a copied source and a
\* paste that fails included, leaves it as it was.
Pasted(evs) == evs # << >> /\ evs[1].type \in {"move", "copy2", "copytree"}

SelectedPath == Join(current_path, Listing(fs, current_path)[selected + 1])

NormalKeyRead ==
    command_mode /\ events' # << >> /\ \E key \in NormalKeys : events'[1] = KeyRead(key)

CommandModeCaptures ==
    /\ [](run = "running" /\ ~command_mode => cmd_buffer = << >>)
    /\ [][/\ NormalKeyRead =>
                /\ cmd_buffer' = Append(cmd_buffer, events'[1].text[1])
                /\ command_mode'
                /\ Len(events') = 1
                /\ UNCHANGED <<fs, clipboard, current_path, preview_mode, run,
                               last_search, search_matches, current_match_idx>>
                /\ selected' # selected => StartsWith(cmd_buffer, <<"/">>)
          /\ command_mode /\ ~command_mode' =>
                /\ events' # << >>
                /\ events'[1] \in {KeyRead(Enter), KeyRead(Esc)}]_vars

\* q was read in command mode with an entry selected: it is in the buffer
\* and the program runs on.
QuitKeyTyped ==
    /\ events = <<KeyRead("q")>>
    /\ command_mode
    /\ cmd_buffer = <<"/", "q">>
    /\ selected > 0
    /\ run = "running"
\* C23: after Backspace or a printable key in command mode, when the buffer
\* left begins with "/", has two characters or more and its pattern
\* compiles, selected is the smallest index of the entries shown whose name
\* is not ".." or "." and matches; when nothing matches, the pattern does
\* not compile or the buffer is no live filter, selected is as before; and
\* nothing but the buffer and selected changes.
BufferEdited == command_mode /\ command_mode' /\ events' = << >>

LiveFilterOnEdit ==
    [][BufferEdited =>
          LET pattern == Drop(cmd_buffer', 1)
              live == /\ StartsWith(cmd_buffer', <<"/">>)
                      /\ Len(cmd_buffer') >= 2
                      /\ Compiles(pattern)
              hits == IF live THEN Matching(pattern, entries) ELSE {}
          IN  /\ hits # {} => selected' \in hits /\ \A i \in hits : selected' <= i
              /\ hits = {} => selected' = selected
              /\ \/ cmd_buffer' = cmd_buffer /\ cmd_buffer = << >>
                 \/ cmd_buffer # << >> /\ cmd_buffer' = SubSeq(cmd_buffer, 1, Len(cmd_buffer) - 1)
                 \/ cmd_buffer' # << >> /\ cmd_buffer = SubSeq(cmd_buffer', 1, Len(cmd_buffer') - 1)
              /\ UNCHANGED <<fs, current_path, preview_mode, last_search, search_matches,
                             current_match_idx, clipboard, run, pager>>]_vars

\* "/f" is in the buffer and the live filter has the selection on f.t, past
\* the directory d.
LiveFilterOnFile ==
    /\ command_mode
    /\ events = << >>
    /\ cmd_buffer = <<"/", "f">>
    /\ entries = <<DotDot, <<"d">>, f_t>>
    /\ selected = 2
\* What a shell sub-command gave, from the events after its "shell" event
\* at i, and whether the pager was opened on it.
Footer(rc) == <<"\n", "\n", "(Return code: ", rc, ")">>

Blank(text) == \A k \in 1..Len(text) : text[k] \in {" ", "\n"}

EndsWith(text, tail) ==
    Len(text) >= Len(tail) /\ SubSeq(text, Len(text) - Len(tail) + 1, Len(text)) = tail

Paged(evs, i) == i + 4 <= Len(evs) /\ evs[i + 4].type = "pager"

ShellRan(evs, i) == evs[i].type = "shell" /\ evs[i].ok

\* C24, as stated: after each shell sub-command the pager is opened on the
\* captured stdout and stderr if they are non-empty, is not opened when
\* they are empty and the return code is 0, and the text shown ends with
\* the footer exactly when the return code is not 0.
NonEmptyOutputPaged ==
    [][Committed =>
          \A i \in 1..Len(events') :
              ShellRan(events', i) =>
                  LET out == events'[i + 1].text
                      err == events'[i + 2].text
                      failed == ~events'[i + 3].ok
                  IN  /\ out # << >> \/ err # << >> => Paged(events', i)
                      /\ out = << >> /\ err = << >> /\ ~failed => ~Paged(events', i)
                      /\ Paged(events', i) =>
                            (EndsWith(events'[i + 4].text, Footer(events'[i + 3].text[1]))
                                <=> failed)]_vars

\* C24, amended: the pager is opened exactly when the text to show - stdout,
\* stderr on a new line after it, and the footer when the return code is
\* not 0 - holds more than white space; the text shown is that text, and it
\* ends with the footer exactly when the return code is not 0.
NonBlankOutputPaged ==
    [][Committed =>
          \A i \in 1..Len(events') :
              ShellRan(events', i) =>
                  LET out == events'[i + 1].text
                      err == events'[i + 2].text
                      failed == ~events'[i + 3].ok
                      footer == Footer(events'[i + 3].text[1])
                      between == IF out # << >> /\ err # << >> THEN <<"\n">> ELSE << >>
                  IN  /\ Paged(events', i) <=> ~(Blank(out) /\ Blank(err) /\ ~failed)
                      /\ Paged(events', i) =>
                            /\ events'[i + 4].text =
                                  out \o between \o err
                                      \o (IF failed THEN footer ELSE << >>)
                            /\ EndsWith(events'[i + 4].text, footer) <=> failed]_vars

\* A sub-command printed white space only and returned 0, and the pager was
\* not opened.
BlankOutputNotPaged ==
    /\ Len(events) = 5
    /\ events[1] = KeyRead(Enter)
    /\ events[2].type = "shell"
    /\ events[3].text = <<" ">>
    /\ events[4].text = <<"\n">>
    /\ events[5].type = "returncode" /\ events[5].ok
\* The section of a banner line, and the section in force at row r of the
\* redraw: that of the last banner drawn above it.
Banner(raw) ==
    IF StartsWith(raw, StagedBanner) THEN "staged"
    ELSE IF StartsWith(raw, UnstagedBanner) THEN "unstaged"
    ELSE "None"

ShownLine(r) == PyIndex(pager.lines, Screen[r].idx)

CurrentSection(r) ==
    LET above == {q \in 1..(r - 1) : Banner(ShownLine(q)) # "None"}
    IN  IF above = {} THEN "None"
        ELSE Banner(ShownLine(CHOOSE q \in above : \A o \in above : o <= q))

\* A line shown that is no banner, no hint inside a section and holds no
\* hunk marker.
DiffLine(r) ==
    /\ Banner(ShownLine(r)) = "None"
    /\ ~(StartsWith(Strip(ShownLine(r)), HintPrefix) /\ CurrentSection(r) # "None")
    /\ Markers(ShownLine(r)) = {}

\* The one span of row r with the attribute of a line that is no header.
LineClass(r) ==
    IF StartsWith(ShownLine(r), <<"+">>) THEN "color_pair(6)"
    ELSE IF StartsWith(ShownLine(r), <<"-">>) THEN "color_pair(3)"
    ELSE IF CurrentSection(r) = "staged" THEN "color_pair(6)"
    ELSE IF CurrentSection(r) = "unstaged" THEN "color_pair(3)"
    ELSE "A_BOLD"

SessionWellFormed ==
    /\ [](last_search # NoneStr /\ last_search # << >> =>
            /\ search_matches # << >>
            /\ 0 <= current_match_idx
            /\ current_match_idx < Len(search_matches))
    /\ [][SearchKeyRead("n") \/ SearchKeyRead("N") =>
            StatusShown("No matches") \notin Range(events')]_vars

\* A filter that matched nothing was confirmed after one that had matched:
\* the session is gone, the cursor of the earlier one still 0.
SessionEndedByNoMatch ==
    /\ events = <<KeyRead(Enter), StatusShown("No matches")>>
    /\ last_search = NoneStr
    /\ search_matches = << >>
    /\ current_match_idx = 0
\* C27: with the selection on "..", Delete, Rename, Cut and Copy make no
\* call on the path current_path/.. and do not take it into the clipboard,
\* and the parent directory stays where it is.
ParentPath == Join(current_path, DotDot)

ParentEntryUntouched ==
    [][selected = 0 =>
          /\ \A i \in 1..Len(events') :
                events'[i].type \in {"rmtree", "remove"} => events'[i].path # ParentPath
          /\ \A i \in 1..Len(events') : events'[i].type # "rename"
          /\ clipboard' # clipboard => clipboard'.path # ParentPath
          /\ IsDir(fs', NormPath(ParentPath))]_vars
====
